---- MODULE Spec2Model ----
(***************************************************************************)
(* A model of the RAG assistant's document and chat endpoints:             *)
(*   app/api/v1/endpoints/document.py  (index, delete, list)               *)
(*   app/api/v1/endpoints/chat.py      (question)                          *)
(*   app/crud/firestore.py             (FirestoreCRUD)                     *)
(*   app/crud/vertex_ai.py             (VertexAICRUD.generate_embedding)   *)
(* Every await of a handler is a point where other requests may run, so a  *)
(* handler is one action per stretch of code between two awaits.           *)
(***************************************************************************)
EXTENDS Naturals, Sequences, FiniteSets, TLC

VARIABLES
    store,      \* the chunk documents of users/{u}/sessions/{s}/documents
    sessions,   \* the session marker documents users/{u}/sessions/{s}
    users,      \* the user marker documents users/{u}
    ing,        \* the index_documents requests and their per-file tasks
    del,        \* the delete_document requests
    lst,        \* the list_documents requests
    qst,        \* the outcome of the last question request
    call        \* a direct call of generate_embeddings_in_batches

vars == <<store, sessions, users, ing, del, lst, qst, call>>

(***************************************************************************)
(* Bounds of the model.                                                    *)
(***************************************************************************)
MaxChunks == 2      \* chunks the chunker yields for one file, at most
MaxCallChunks == 3  \* chunks of a direct call of the batcher, at most
MaxBatch == 2       \* largest explicit batch_size tried besides the default
MaxFiles == 2       \* files of one index request, at most

(***************************************************************************)
(* Program constants.                                                      *)
(***************************************************************************)
DefaultBatchSize == 250

Min(a, b) == IF a < b THEN a ELSE b

\* The chunk texts of a document that chunks into n pieces: chunk i is the
\* text i, so that a vector can be traced back to the chunk it was made from.
ChunkTexts(n) == [i \in 1..n |-> i]

\* The batch sizes generate_embeddings_in_batches is exercised with.
BatchSizes == (1..MaxBatch) \cup {DefaultBatchSize}

(***************************************************************************)
(* VertexAICRUD.generate_embedding: one call of the embedding service.     *)
(* The service is remote: it answers with one vector per text ("ok"),      *)
(* with a malformed answer that lacks the last vector ("short"), or the    *)
(* call raises and the handler turns that into HTTPException(500).         *)
(***************************************************************************)
EmbedOutcomes == {"ok", "short", "fail"}

\* The vector the service computes for a text (not the identity).
EmbedText(t) == 100 + t

generate_embedding(texts, outcome) ==
    CASE outcome = "ok" ->
            [st |-> "ok",
             values |-> [i \in 1..Len(texts) |-> EmbedText(texts[i])]]
      [] outcome = "short" ->
            [st |-> "ok",
             values |-> [i \in 1..(Len(texts) - 1) |-> EmbedText(texts[i])]]
      [] outcome = "fail" ->
            [st |-> "raised", values |-> <<>>]

(***************************************************************************)
(* generate_embeddings_in_batches.                                         *)
(***************************************************************************)
\* range(0, len(chunks), batch_size), as a sequence of 0-based offsets
BatchStarts(n, batch_size) ==
    [j \in 1..((n + batch_size - 1) \div batch_size) |-> (j - 1) * batch_size]

\* chunks[i : i + batch_size]
Slice(chunks, i, batch_size) ==
    SubSeq(chunks, i + 1, Min(i + batch_size, Len(chunks)))

\* the argument of each generate_embedding task, in task order
BatchInputs(chunks, batch_size) ==
    [j \in DOMAIN BatchStarts(Len(chunks), batch_size) |->
        Slice(chunks, BatchStarts(Len(chunks), batch_size)[j], batch_size)]

RECURSIVE Concat(_)
Concat(seqs) ==
    IF seqs = <<>> THEN <<>> ELSE Head(seqs) \o Concat(Tail(seqs))

RECURSIVE ConcatReversed(_)
ConcatReversed(seqs) ==
    IF seqs = <<>> THEN <<>> ELSE ConcatReversed(Tail(seqs)) \o Head(seqs)

\* final_vectors with the batches taken last-first
final_vectors_reversed(all_batch_responses) ==
    ConcatReversed(
        [j \in DOMAIN all_batch_responses |-> all_batch_responses[j].values])

\* [resp.values for batch_responses in all_batch_responses for resp in ...]
final_vectors(all_batch_responses) ==
    Concat([j \in DOMAIN all_batch_responses |-> all_batch_responses[j].values])

PendingResp == [st |-> "pending", values |-> <<>>]

\* No call in progress.
EmbIdle ==
    [pc |-> "idle", inputs |-> <<>>, resp |-> <<>>, order |-> <<>>,
     result |-> <<>>]

\* Entry: the empty list returns at once, otherwise one task per batch is
\* created and the caller awaits asyncio.gather.
\* `order` records the order in which the tasks complete.
EmbCall(chunks, batch_size) ==
    IF chunks = <<>>
    THEN [EmbIdle EXCEPT !.pc = "returned"]
    ELSE [pc |-> "gather",
          inputs |-> BatchInputs(chunks, batch_size),
          resp |-> [j \in DOMAIN BatchInputs(chunks, batch_size) |-> PendingResp],
          order |-> <<>>,
          result |-> <<>>]

\* Task j completes with the service's outcome.
EmbTaskDone(e, j, outcome) ==
    [e EXCEPT !.resp[j] = generate_embedding(e.inputs[j], outcome),
              !.order = Append(@, j)]

EmbPending(e) == {j \in DOMAIN e.resp : e.resp[j].st = "pending"}

\* gather returns once every task has returned ...
EmbCanReturn(e) ==
    /\ e.pc = "gather"
    /\ \A j \in DOMAIN e.resp : e.resp[j].st = "ok"

EmbReturn(e) ==
    [e EXCEPT !.pc = "returned", !.result = final_vectors(e.resp)]

\* ... and raises as soon as one task has raised.
EmbCanRaise(e) ==
    /\ e.pc = "gather"
    /\ \E j \in DOMAIN e.resp : e.resp[j].st = "raised"

EmbRaise(e) == [e EXCEPT !.pc = "raised"]

(***************************************************************************)
(* A direct call of generate_embeddings_in_batches(chunks, batch_size).    *)
(***************************************************************************)
CallInit ==
    \E n \in 0..MaxCallChunks, b \in BatchSizes :
        call = [chunks |-> ChunkTexts(n), batch_size |-> b,
                e |-> EmbCall(ChunkTexts(n), b)]

CallTaskDone(j, outcome) ==
    /\ call.e.pc = "gather"
    /\ j \in EmbPending(call.e)
    /\ call' = [call EXCEPT !.e = EmbTaskDone(@, j, outcome)]
    /\ UNCHANGED <<store, sessions, users, ing, del, lst, qst>>

CallReturn ==
    /\ EmbCanReturn(call.e)
    /\ call' = [call EXCEPT !.e = EmbReturn(@)]
    /\ UNCHANGED <<store, sessions, users, ing, del, lst, qst>>

CallRaise ==
    /\ EmbCanRaise(call.e)
    /\ call' = [call EXCEPT !.e = EmbRaise(@)]
    /\ UNCHANGED <<store, sessions, users, ing, del, lst, qst>>

(***************************************************************************)
(* The store (Firestore) and the identifiers of the model.                 *)
(***************************************************************************)
Users == {"u1", "u2"}
SessionOrder == <<"s1", "s2">>      \* session ids in document-id order
Sessions == {SessionOrder[i] : i \in DOMAIN SessionOrder}
\* the (user, session) scopes the requests address
Scopes == {<<"u1", "s1">>, <<"u1", "s2">>, <<"u2", "s1">>}
Filenames == {"a.pdf", "b.pdf", ""} \* an upload may carry an empty filename
IngestIds == {1}
DeleteIds == {1}
ListIds == {1}

\* The id of the i-th chunk document written for file k of index request r
\* (the store assigns ids that are unique; this one also tells the writer).
DocId(r, k, i) == (r * 10 + k) * 10 + i

InScope(c, u, s) == c.user = u /\ c.session = s

\* What an endpoint answers when an exception of status `raised` leaves its
\* body: every endpoint here wraps its body in `except Exception`, which
\* catches an HTTPException too and raises HTTPException(500) in its place.
StatusAfterCatch(raised) == 500

\* A listing or a question is the last thing a behaviour observes: once it
\* has returned, the model follows the other requests no further.
Observed ==
    \/ \E l \in ListIds : lst[l].pc = "done"
    \/ qst.pc = "done"

(***************************************************************************)
(* index_documents and _process_and_index_file.                            *)
(***************************************************************************)
NoResult ==
    [status |-> "none", indexed_chunks |-> 0, document_ids |-> <<>>,
     detail |-> ""]

ErrorResult(detail) ==
    [status |-> "error", indexed_chunks |-> 0, document_ids |-> <<>>,
     detail |-> detail]

SuccessResult(document_ids) ==
    [status |-> "success", indexed_chunks |-> Len(document_ids),
     document_ids |-> document_ids, detail |-> ""]

NewTask(filename) ==
    [filename |-> filename, pc |-> "read", chunks |-> <<>>,
     chunk_vectors |-> <<>>, batch_failed |-> FALSE,
     batch_returned |-> FALSE, result |-> NoResult]

\* A task that returned `result`: its locals are gone.
DoneTask(t, result) ==
    [t EXCEPT !.pc = "done", !.chunks = <<>>, !.chunk_vectors = <<>>,
              !.result = result]

IdleIngest ==
    [pc |-> "idle", user |-> "", session |-> "", tasks |-> <<>>,
     status |-> 0, message |-> "", successful |-> <<>>, failed |-> <<>>]

FileLists ==
    UNION {[1..n -> Filenames] : n \in 0..MaxFiles}

\* Entry of index_documents: no files is a 400, otherwise one task per file
\* is created and the handler awaits asyncio.gather.
IndexStart(r, u, s, names) ==
    /\ ~Observed
    /\ ing[r].pc = "idle"
    /\ ing' = [ing EXCEPT ![r] =
                 IF names = <<>>
                 THEN [IdleIngest EXCEPT !.pc = "done", !.user = u,
                                         !.session = s, !.status = 400,
                                         !.message = "No files uploaded."]
                 ELSE [IdleIngest EXCEPT !.pc = "gather", !.user = u,
                                         !.session = s,
                                         !.tasks = [k \in DOMAIN names |->
                                                       NewTask(names[k])]]]
    /\ UNCHANGED <<store, sessions, users, del, lst, qst, call>>

TaskAt(r, k, pc) ==
    /\ ing[r].pc = "gather"
    /\ k \in DOMAIN ing[r].tasks
    /\ ing[r].tasks[k].pc = pc

\* The call of generate_embeddings_in_batches run to its end, task j
\* completing with outcome outcomes[j].
RECURSIVE EmbRunFrom(_, _, _)
EmbRunFrom(e, outcomes, j) ==
    IF j > Len(e.resp) THEN e
    ELSE EmbRunFrom(EmbTaskDone(e, j, outcomes[j]), outcomes, j + 1)

\* as EmbRun, but a task that raised counts as one that returned nothing
EmbRunSkippingFailures(chunks, batch_size, outcomes) ==
    LET e == EmbRunFrom(EmbCall(chunks, batch_size), outcomes, 1)
    IN [e EXCEPT !.pc = "returned", !.result = final_vectors(e.resp)]

EmbRun(chunks, batch_size, outcomes) ==
    LET e == EmbRunFrom(EmbCall(chunks, batch_size), outcomes, 1)
    IN IF EmbCanRaise(e) THEN EmbRaise(e) ELSE EmbReturn(e)

\* _process_and_index_file from file.read() to the await of batch.commit in
\* index_batch. Nothing here reads or writes the store, so no other request
\* can tell the awaits in between apart, and they are one step:
\*   _extract_and_chunk_text yields n chunks, none when the PDF has no text
\*   or extraction raised (the helper returns [] for both);
\*   generate_embeddings_in_batches raises, or returns the vectors;
\*   without vectors the file is an error, otherwise index_batch is entered.
\* batch_failed and batch_returned note that an embedding call of the file
\* raised, and that one returned.
FileProcess(r, k, n, batch_size, outcomes) ==
    /\ ~Observed
    /\ TaskAt(r, k, "read")
    /\ LET chunks == ChunkTexts(n)
           e == EmbRun(chunks, batch_size, outcomes)
           chunk_vectors == e.result
           t == [ing[r].tasks[k] EXCEPT
                   !.batch_failed =
                       \E j \in DOMAIN outcomes : outcomes[j] = "fail",
                   !.batch_returned =
                       \E j \in DOMAIN outcomes : outcomes[j] # "fail"]
       IN ing' = [ing EXCEPT ![r].tasks[k] =
                    IF chunks = <<>>
                    THEN DoneTask(t, ErrorResult("no_chunks"))
                    ELSE IF e.pc = "raised"
                    THEN DoneTask(t, ErrorResult("embedding_raised"))
                    ELSE IF chunk_vectors = <<>>
                    THEN DoneTask(t, ErrorResult("no_vectors"))
                    ELSE [t EXCEPT !.pc = "commit", !.chunks = chunks,
                                   !.chunk_vectors = chunk_vectors]]
    /\ UNCHANGED <<store, sessions, users, del, lst, qst, call>>

\* zip(chunks, chunk_vectors)
chunks_to_index(chunks, chunk_vectors) ==
    [i \in 1..Min(Len(chunks), Len(chunk_vectors)) |->
        [text |-> chunks[i], vector |-> chunk_vectors[i]]]

\* as BatchDocs, but only the first document of the batch lands
BatchDocsFirstOnly(r, k, u, s, filename, chunks_with_vectors) ==
    {[id |-> DocId(r, k, i), user |-> u, session |-> s,
      filename |-> filename, text |-> chunks_with_vectors[i].text,
      embedding |-> chunks_with_vectors[i].vector, active |-> TRUE] :
        i \in DOMAIN chunks_with_vectors \cap {1}}

\* The chunk documents index_batch puts into its write batch.
BatchDocs(r, k, u, s, filename, chunks_with_vectors) ==
    {[id |-> DocId(r, k, i), user |-> u, session |-> s,
      filename |-> filename, text |-> chunks_with_vectors[i].text,
      embedding |-> chunks_with_vectors[i].vector, active |-> TRUE] :
        i \in DOMAIN chunks_with_vectors}

\* The session markers index_batch's write batch sets.
BatchSessionMarkers(u, s) == {<<u, s>>}

\* A deletion of `filename` in (u, s) that has read its documents.
DeleteSeesCommit(d, u, s, filename) ==
    /\ del[d].pc \in {"queried", "done"}
    /\ del[d].user = u /\ del[d].session = s /\ del[d].filename = filename

\* index_batch's commit: the whole batch is written, or nothing is and the
\* exception becomes HTTPException(500), which makes the file an error.
\* del and lst only note that the store changed under them.
FileCommit(r, k, ok) ==
    /\ ~Observed
    /\ TaskAt(r, k, "commit")
    /\ LET u == ing[r].user
           s == ing[r].session
           t == ing[r].tasks[k]
           cv == chunks_to_index(t.chunks, t.chunk_vectors)
           ids == [i \in DOMAIN cv |-> DocId(r, k, i)]
       IN IF ok
          THEN /\ store' = store \cup BatchDocs(r, k, u, s, t.filename, cv)
               /\ sessions' = sessions \cup BatchSessionMarkers(u, s)
               /\ users' = users \cup {u}
               /\ ing' = [ing EXCEPT ![r].tasks[k] =
                            DoneTask(@, SuccessResult(ids))]
               /\ del' = [d \in DeleteIds |->
                            IF DeleteSeesCommit(d, u, s, t.filename)
                            THEN [del[d] EXCEPT
                                    !.commit_after_query = TRUE,
                                    !.commit_after_return =
                                        @ \/ (del[d].pc = "done"
                                              /\ del[d].status = 200)]
                            ELSE del[d]]
               /\ lst' = [l \in ListIds |->
                            IF lst[l].pc # "idle" /\ lst[l].user = u
                            THEN [lst[l] EXCEPT !.dirty = TRUE]
                            ELSE lst[l]]
          ELSE /\ ing' = [ing EXCEPT ![r].tasks[k] =
                            DoneTask(@, ErrorResult("index_raised"))]
               /\ UNCHANGED <<store, sessions, users, del, lst>>
    /\ UNCHANGED <<qst, call>>

\* as ResultsWith, but keeping every result that has a status
ResultsWithAnyStatus(results, status) ==
    SelectSeq(results, LAMBDA x : x.status # "")

\* [r for r in results if r["status"] == ...]
ResultsWith(results, status) ==
    SelectSeq(results, LAMBDA x : x.status = status)

\* as IndexStatus, but any failed file fails the request
IndexStatusAnyFailure(successful_files, failed_files) ==
    IF failed_files # <<>> THEN 500 ELSE 200

\* The status index_documents answers with.
IndexStatus(successful_files, failed_files) ==
    IF successful_files = <<>> /\ failed_files # <<>> THEN 500 ELSE 200

\* gather returned every file's result: the response is built.
IndexRespond(r) ==
    /\ ~Observed
    /\ ing[r].pc = "gather"
    /\ \A k \in DOMAIN ing[r].tasks : ing[r].tasks[k].pc = "done"
    /\ LET results == [k \in DOMAIN ing[r].tasks |->
                          [filename |-> ing[r].tasks[k].filename] @@
                          ing[r].tasks[k].result]
           successful_files == ResultsWith(results, "success")
           failed_files == ResultsWith(results, "error")
       IN ing' = [ing EXCEPT ![r] =
                    [@ EXCEPT
                       !.pc = "done",
                       !.status = IndexStatus(successful_files, failed_files),
                       !.message =
                          IF IndexStatus(successful_files, failed_files) = 500
                          THEN "Failed to process all documents."
                          ELSE "Document processing completed.",
                       !.successful = successful_files,
                       !.failed = failed_files]]
    /\ UNCHANGED <<store, sessions, users, del, lst, qst, call>>

(***************************************************************************)
(* timeout_middleware around index_documents.                              *)
(* asyncio.wait_for cancels the handler when the time is up: the handler   *)
(* is awaiting asyncio.gather, which cancels every file task that has not  *)
(* returned (CancelledError is no Exception, so _process_and_index_file    *)
(* does not catch it). A task awaiting asyncio.to_thread(batch.commit) is  *)
(* cancelled too, but a thread that has started cannot be: the commit is   *)
(* then no longer awaited by anyone and still runs to its end.             *)
(***************************************************************************)
\* The file tasks of request r that await the commit of index_batch.
TasksAtCommit(r) ==
    {k \in DOMAIN ing[r].tasks : ing[r].tasks[k].pc = "commit"}

\* A cancelled task: its locals are gone and it returns nothing.
CancelledTask(t) ==
    [t EXCEPT !.pc = "cancelled", !.chunks = <<>>, !.chunk_vectors = <<>>]

\* The time is up while index_documents awaits its file tasks: the caller
\* is answered 504. `running` are the tasks whose commit thread had started.
Timeout(r, running) ==
    /\ ~Observed
    /\ ing[r].pc = "gather"
    /\ running \subseteq TasksAtCommit(r)
    /\ ing' = [ing EXCEPT
                 ![r].pc = "timeout",
                 ![r].status = 504,
                 ![r].message = "Request timed out",
                 ![r].tasks =
                    [k \in DOMAIN ing[r].tasks |->
                        IF ing[r].tasks[k].pc = "done" THEN ing[r].tasks[k]
                        ELSE IF k \in running
                        THEN [ing[r].tasks[k] EXCEPT !.pc = "detached"]
                        ELSE CancelledTask(ing[r].tasks[k])]]
    /\ UNCHANGED <<store, sessions, users, del, lst, qst, call>>

\* The commit thread of an abandoned task ends: the whole batch is written,
\* or nothing is; nobody receives the outcome.
DetachedCommit(r, k, ok) ==
    /\ ~Observed
    /\ ing[r].pc = "timeout"
    /\ k \in DOMAIN ing[r].tasks
    /\ ing[r].tasks[k].pc = "detached"
    /\ LET u == ing[r].user
           s == ing[r].session
           t == ing[r].tasks[k]
           cv == chunks_to_index(t.chunks, t.chunk_vectors)
       IN IF ok
          THEN /\ store' = store \cup BatchDocs(r, k, u, s, t.filename, cv)
               /\ sessions' = sessions \cup BatchSessionMarkers(u, s)
               /\ users' = users \cup {u}
               /\ ing' = [ing EXCEPT ![r].tasks[k].pc = "abandoned"]
               /\ del' = [d \in DeleteIds |->
                            IF DeleteSeesCommit(d, u, s, t.filename)
                            THEN [del[d] EXCEPT
                                    !.commit_after_query = TRUE,
                                    !.commit_after_return =
                                        @ \/ (del[d].pc = "done"
                                              /\ del[d].status = 200)]
                            ELSE del[d]]
               /\ lst' = [l \in ListIds |->
                            IF lst[l].pc # "idle" /\ lst[l].user = u
                            THEN [lst[l] EXCEPT !.dirty = TRUE]
                            ELSE lst[l]]
          ELSE /\ ing' = [ing EXCEPT ![r].tasks[k] = CancelledTask(@)]
               /\ UNCHANGED <<store, sessions, users, del, lst>>
    /\ UNCHANGED <<qst, call>>

(***************************************************************************)
(* delete_document and FirestoreCRUD.delete.                               *)
(* `crud` is the status of the exception FirestoreCRUD.delete raised (0:   *)
(* it returned), `status` the status the endpoint answers with.            *)
(* commit_after_query and commit_after_return note that an ingestion of    *)
(* the same (user, session, filename) committed after the deletion read    *)
(* its documents, and after it returned 200.                               *)
(***************************************************************************)
IdleDelete ==
    [pc |-> "idle", user |-> "", session |-> "", filename |-> "",
     docs |-> {}, crud |-> 0, status |-> 0,
     commit_after_query |-> FALSE, commit_after_return |-> FALSE]

\* as docs_to_delete, but the query stops at the first document
docs_to_delete_first(u, s, filename) ==
    LET found == {c.id : c \in {x \in store : InScope(x, u, s)
                                              /\ x.filename = filename}}
    IN {id \in found : \A other \in found : id <= other}

\* documents_ref.where("filename", "==", filename).stream()
docs_to_delete(u, s, filename) ==
    {c.id : c \in {x \in store : InScope(x, u, s) /\ x.filename = filename}}

\* The endpoint's `except Exception` around FirestoreCRUD.delete.
DeleteEndpointStatus(crud) == StatusAfterCatch(crud)

\* Entry, up to the await of the query and on to the await of the commit:
\* the query raising is a 500 of the CRUD layer, no document a 404 of it,
\* which `except HTTPException` re-raises as it is.
\* A request that failed keeps only the statuses: it has changed nothing.
DeleteQuery(d, u, s, filename, ok) ==
    /\ ~Observed
    /\ del[d].pc = "idle"
    /\ del' = [del EXCEPT ![d] =
                 IF ~ok
                 THEN [IdleDelete EXCEPT
                         !.pc = "done", !.crud = 500,
                         !.status = DeleteEndpointStatus(500)]
                 ELSE IF docs_to_delete(u, s, filename) = {}
                 THEN [IdleDelete EXCEPT
                         !.pc = "done", !.crud = 404,
                         !.status = DeleteEndpointStatus(404)]
                 ELSE [IdleDelete EXCEPT
                         !.pc = "queried", !.user = u, !.session = s,
                         !.filename = filename,
                         !.docs = docs_to_delete(u, s, filename)]]
    /\ UNCHANGED <<store, sessions, users, ing, lst, qst, call>>

\* as StoreAfterDelete, but the batch deletes by filename in every scope
StoreAfterDeleteByName(docs) ==
    {c \in store : \A x \in store : x.id \in docs => c.filename # x.filename}

\* The documents a committed delete batch leaves in the store.
StoreAfterDelete(docs) == {c \in store : c.id \notin docs}

\* The delete batch commits (every document read is deleted) or raises.
DeleteCommit(d, ok) ==
    /\ ~Observed
    /\ del[d].pc = "queried"
    /\ IF ok
       THEN /\ store' = StoreAfterDelete(del[d].docs)
            /\ del' = [del EXCEPT ![d].pc = "done", ![d].status = 200]
            /\ lst' = [l \in ListIds |->
                         IF lst[l].pc # "idle" /\ lst[l].user = del[d].user
                         THEN [lst[l] EXCEPT !.dirty = TRUE]
                         ELSE lst[l]]
       ELSE /\ del' = [del EXCEPT ![d] =
                         [IdleDelete EXCEPT
                            !.pc = "done", !.crud = 500,
                            !.status = DeleteEndpointStatus(500)]]
            /\ UNCHANGED <<store, lst>>
    /\ UNCHANGED <<sessions, users, ing, qst, call>>

(***************************************************************************)
(* list_documents and FirestoreCRUD.list.                                  *)
(* `after` is the set of deletions that had returned 200 when the listing  *)
(* started; `dirty` notes that the user's documents changed since.         *)
(***************************************************************************)
IdleList ==
    [pc |-> "idle", user |-> "", pending |-> <<>>, flat |-> <<>>,
     result |-> <<>>, status |-> 0, after |-> {}, dirty |-> FALSE]

\* sessions_ref.stream(): the user's session documents, in id order
all_sessions(u) == SelectSeq(SessionOrder, LAMBDA s : <<u, s>> \in sessions)

RECURSIVE SortedIds(_)
SortedIds(ids) ==
    IF ids = {} THEN <<>>
    ELSE LET m == CHOOSE x \in ids : \A y \in ids : x <= y
         IN <<m>> \o SortedIds(ids \ {m})

DocWithId(id) == CHOOSE c \in store : c.id = id

\* documents_ref.stream() of one session, as the entries appended to
\* all_documents_flat
session_docs_flat(u, s) ==
    LET ids == SortedIds({c.id : c \in {x \in store : InScope(x, u, s)}})
    IN [i \in DOMAIN ids |->
          [session_id |-> s, filename |-> DocWithId(ids[i]).filename]]

SessionIndex(summary, session_id) ==
    {i \in DOMAIN summary : summary[i].session_id = session_id}

FileIndex(files, filename) ==
    {i \in DOMAIN files : files[i].filename = filename}

\* as CountFile, but a filename seen again starts a new entry
CountFileAppending(files, filename) ==
    Append(files, [filename |-> filename, chunk_count |-> 1])

\* files_dict[filename]["chunk_count"] += 1, the entry made first if absent
CountFile(files, filename) ==
    IF FileIndex(files, filename) = {}
    THEN Append(files, [filename |-> filename, chunk_count |-> 1])
    ELSE [files EXCEPT ![CHOOSE i \in FileIndex(files, filename) : TRUE]
                          .chunk_count = @ + 1]

\* One iteration of the grouping loop.
AddDoc(summary, doc) ==
    IF doc.session_id = "" \/ doc.filename = ""
    THEN summary
    ELSE IF SessionIndex(summary, doc.session_id) = {}
    THEN Append(summary, [session_id |-> doc.session_id,
                          files |-> CountFile(<<>>, doc.filename)])
    ELSE [summary EXCEPT
            ![CHOOSE i \in SessionIndex(summary, doc.session_id) : TRUE]
                .files = CountFile(@, doc.filename)]

RECURSIVE Summarise(_, _)
Summarise(summary, flat) ==
    IF flat = <<>> THEN summary
    ELSE Summarise(AddDoc(summary, Head(flat)), Tail(flat))

\* final_result of FirestoreCRUD.list
final_result(all_documents_flat) == Summarise(<<>>, all_documents_flat)

\* The listing after its last read: the summary is built and returned.
ListReturn(l, flat) ==
    [l EXCEPT !.pc = "done", !.pending = <<>>, !.flat = <<>>,
              !.result = final_result(flat), !.status = 200]

ListRaise(l) == [IdleList EXCEPT !.pc = "done", !.status = 500]

\* Entry, up to the await of the sessions' stream and on to the next await.
ListStart(l, u, ok) ==
    /\ ~Observed
    /\ lst[l].pc = "idle"
    /\ LET new == [IdleList EXCEPT
                     !.user = u,
                     !.after = {d \in DeleteIds : del[d].pc = "done"
                                                  /\ del[d].status = 200}]
       IN lst' = [lst EXCEPT ![l] =
                    IF ~ok THEN ListRaise(new)
                    ELSE IF all_sessions(u) = <<>> THEN ListReturn(new, <<>>)
                    ELSE [new EXCEPT !.pc = "reading",
                                     !.pending = all_sessions(u)]]
    /\ UNCHANGED <<store, sessions, users, ing, del, qst, call>>

\* The documents of the next session are read.
ListRead(l, ok) ==
    /\ lst[l].pc = "reading"
    /\ LET flat == lst[l].flat \o
                   session_docs_flat(lst[l].user, Head(lst[l].pending))
       IN lst' = [lst EXCEPT ![l] =
                    IF ~ok THEN ListRaise(@)
                    ELSE IF Tail(@.pending) = <<>> THEN ListReturn(@, flat)
                    ELSE [@ EXCEPT !.pending = Tail(@), !.flat = flat]]
    /\ UNCHANGED <<store, sessions, users, ing, del, qst, call>>

(***************************************************************************)
(* question, FirestoreCRUD.vectors and LangChainQA.get_answer.             *)
(***************************************************************************)
Chars == {" ", "q"}
MaxQuestionLen == 1
Questions == UNION {[1..n -> Chars] : n \in 0..MaxQuestionLen}

\* str.strip()
RECURSIVE LStrip(_)
LStrip(q) ==
    IF q # <<>> /\ Head(q) = " " THEN LStrip(Tail(q)) ELSE q

RECURSIVE RStrip(_)
RStrip(q) ==
    IF q # <<>> /\ q[Len(q)] = " " THEN RStrip(SubSeq(q, 1, Len(q) - 1)) ELSE q

Strip(q) == RStrip(LStrip(q))

\* all_vectors of FirestoreCRUD.vectors: the embeddings of the scope's
\* documents that have one
all_vectors(u, s) ==
    LET ids == SortedIds({c.id : c \in {x \in store : InScope(x, u, s)}})
    IN [i \in DOMAIN ids |-> DocWithId(ids[i]).embedding]

\* LangChainQA.get_answer (crud/langchain.py): no candidate gives no
\* grounding and an empty response, with no call of a service; otherwise
\* the question is embedded, the candidates are ranked, and the answer
\* service is called unless no candidate is relevant. Either service may
\* raise, and the answer service may answer nothing.
AnswerOutcomes ==
    {"answer", "no_answer", "none_relevant", "embed_fail", "llm_fail"}

get_answer(vectors_list, outcome) ==
    IF vectors_list = <<>>
    THEN [response |-> "", raised |-> FALSE, embed_called |-> FALSE,
          llm_called |-> FALSE]
    ELSE [response |-> IF outcome = "answer" THEN "answer" ELSE "",
          raised |-> outcome \in {"embed_fail", "llm_fail"},
          embed_called |-> TRUE,
          llm_called |-> outcome \in {"answer", "no_answer", "llm_fail"}]

\* scope_chunks: the chunks the scope held; store_read, embed_called and
\* llm_called: the collaborators the handler called; collaborator_raised:
\* one of them raised; response_empty: get_answer returned nothing.
IdleQuestion ==
    [pc |-> "idle", question |-> <<>>, scope_chunks |-> 0,
     store_read |-> FALSE, embed_called |-> FALSE, llm_called |-> FALSE,
     collaborator_raised |-> FALSE, response_empty |-> FALSE,
     raised |-> 0, status |-> 0, data |-> ""]

\* The status of the exception raised inside question's try block (0: none).
QuestionRaised(q, vectors_ok, answer) ==
    IF Strip(q) = <<>> THEN 400
    ELSE IF ~vectors_ok THEN 500
    ELSE IF answer.raised THEN 500
    ELSE IF answer.response = "" THEN 404
    ELSE 0

\* The endpoint's `except Exception` around the whole body.
QuestionEndpointStatus(raised) == StatusAfterCatch(raised)

\* The whole handler: it reads the store once and writes nothing.
Question(u, s, q, vectors_ok, outcome) ==
    /\ ~Observed
    /\ LET blank == Strip(q) = <<>>
           reads == ~blank
           asks == reads /\ vectors_ok
           answer == IF asks THEN get_answer(all_vectors(u, s), outcome)
                     ELSE get_answer(<<>>, outcome)
           raised == QuestionRaised(q, vectors_ok, answer)
       IN qst' = [pc |-> "done",
                  question |-> q,
                  scope_chunks |->
                      Cardinality({c \in store : InScope(c, u, s)}),
                  store_read |-> reads,
                  embed_called |-> asks /\ answer.embed_called,
                  llm_called |-> asks /\ answer.llm_called,
                  collaborator_raised |->
                      reads /\ (~vectors_ok \/ answer.raised),
                  response_empty |->
                      asks /\ ~answer.raised /\ answer.response = "",
                  raised |-> raised,
                  status |-> IF raised = 0 THEN 200
                             ELSE QuestionEndpointStatus(raised),
                  data |-> IF raised = 0 THEN answer.response ELSE ""]
    /\ UNCHANGED <<store, sessions, users, ing, del, lst, call>>

(***************************************************************************)
(* Specifications.                                                         *)
(***************************************************************************)
IdleCall == [chunks |-> <<>>, batch_size |-> 0, e |-> EmbIdle]

\* What an earlier index request, long returned, may have left in the store:
\* nothing, or the one chunk of a file "a.pdf" in another session.
EarlierDocs ==
    BatchDocs(0, 1, "u1", "s2", "a.pdf",
              chunks_to_index(ChunkTexts(1),
                              EmbRun(ChunkTexts(1), DefaultBatchSize,
                                     <<"ok">>).result))

Init ==
    /\ \/ store = {} /\ sessions = {} /\ users = {}
       \/ /\ store = EarlierDocs
          /\ sessions = BatchSessionMarkers("u1", "s2")
          /\ users = {"u1"}
    /\ ing = [r \in IngestIds |-> IdleIngest]
    /\ del = [d \in DeleteIds |-> IdleDelete]
    /\ lst = [l \in ListIds |-> IdleList]
    /\ qst = IdleQuestion
    /\ call = IdleCall

\* The outcomes of the embedding tasks of one call, one per batch.
EmbedOutcomeLists(chunks, batch_size) ==
    [DOMAIN BatchInputs(chunks, batch_size) -> EmbedOutcomes]

Ingest ==
    \/ \E r \in IngestIds :
          /\ ing[r].pc = "idle"
          /\ \E sc \in Scopes, names \in FileLists :
                IndexStart(r, sc[1], sc[2], names)
    \/ \E r \in IngestIds, k \in 1..MaxFiles :
          /\ TaskAt(r, k, "read")
          /\ \E n \in 0..MaxChunks, b \in BatchSizes :
                \E outcomes \in EmbedOutcomeLists(ChunkTexts(n), b) :
                   FileProcess(r, k, n, b, outcomes)
    \/ \E r \in IngestIds, k \in 1..MaxFiles, ok \in BOOLEAN :
          FileCommit(r, k, ok)
    \/ \E r \in IngestIds : IndexRespond(r)

Delete ==
    \/ \E d \in DeleteIds :
          /\ del[d].pc = "idle"
          /\ \E sc \in Scopes, f \in Filenames, ok \in BOOLEAN :
                DeleteQuery(d, sc[1], sc[2], f, ok)
    \/ \E d \in DeleteIds, ok \in BOOLEAN : DeleteCommit(d, ok)

List ==
    \/ \E l \in ListIds, u \in Users, ok \in BOOLEAN : ListStart(l, u, ok)
    \/ \E l \in ListIds, ok \in BOOLEAN : ListRead(l, ok)

Ask ==
    /\ ~Observed
    /\ \E sc \in Scopes, q \in Questions, ok \in BOOLEAN,
          o \in AnswerOutcomes : Question(sc[1], sc[2], q, ok, o)

\* Index, delete and list requests running concurrently.
Next == Ingest \/ Delete \/ List

Spec == Init /\ [][Next]_vars

\* Index requests alone.
SpecIngest == Init /\ [][Ingest]_vars

\* Questions over the stores that index requests leave.
NextChat == Ingest \/ Ask

SpecChat == Init /\ [][NextChat]_vars

\* Index requests that the timeout may abandon.
Abandon ==
    \/ \E r \in IngestIds :
          /\ ing[r].pc = "gather"
          /\ \E running \in SUBSET TasksAtCommit(r) : Timeout(r, running)
    \/ \E r \in IngestIds, k \in 1..MaxFiles, ok \in BOOLEAN :
          DetachedCommit(r, k, ok)

NextTimeout == Ingest \/ Abandon

SpecTimeout == Init /\ [][NextTimeout]_vars

\* A direct call of generate_embeddings_in_batches, for every chunk list,
\* batch size, completion order and outcome of the embedding calls.
InitEmbed ==
    /\ store = {}
    /\ sessions = {}
    /\ users = {}
    /\ ing = [r \in IngestIds |-> IdleIngest]
    /\ del = [d \in DeleteIds |-> IdleDelete]
    /\ lst = [l \in ListIds |-> IdleList]
    /\ qst = IdleQuestion
    /\ CallInit

NextEmbed ==
    \/ \E j \in 1..MaxCallChunks, o \in EmbedOutcomes : CallTaskDone(j, o)
    \/ CallReturn
    \/ CallRaise

SpecEmbed == InitEmbed /\ [][NextEmbed]_vars

(***************************************************************************)
(* Properties.                                                             *)
(***************************************************************************)
\* The number of vectors the responses before batch j hold.
RECURSIVE VectorsBefore(_, _)
VectorsBefore(resp, j) ==
    IF j <= 1 THEN 0
    ELSE VectorsBefore(resp, j - 1) + Len(resp[j - 1].values)

\* The number of chunks the batches before batch j hold.
RECURSIVE ChunksBefore(_, _)
ChunksBefore(inputs, j) ==
    IF j <= 1 THEN 0
    ELSE ChunksBefore(inputs, j - 1) + Len(inputs[j - 1])

\* C1: generate_embeddings_in_batches cuts the chunks into consecutive
\* batches of at most batch_size items, every chunk in exactly one batch;
\* whatever the order in which the batch calls complete, it returns the
\* batches' results concatenated in batch order, so that vector i is the
\* vector of chunk i when every batch got one vector per chunk; and an empty
\* chunk list returns the empty list with no embedding call made.
C1_OrderPreserved ==
    LET e == call.e
        n == Len(call.chunks)
    IN /\ call.chunks = <<>> /\ e.pc # "idle" =>
            /\ e.pc = "returned"
            /\ e.result = <<>>
            /\ e.inputs = <<>>
            /\ e.order = <<>>
       /\ call.chunks # <<>> =>
            /\ \A j \in DOMAIN e.inputs :
                  /\ Len(e.inputs[j]) \in 1..call.batch_size
                  /\ \A p \in DOMAIN e.inputs[j] :
                        e.inputs[j][p] =
                            call.chunks[ChunksBefore(e.inputs, j) + p]
            /\ ChunksBefore(e.inputs, Len(e.inputs) + 1) = n
            /\ e.pc = "returned" =>
                  /\ Len(e.result) = VectorsBefore(e.resp, Len(e.resp) + 1)
                  /\ \A j \in DOMAIN e.resp :
                        \A p \in DOMAIN e.resp[j].values :
                           e.result[VectorsBefore(e.resp, j) + p] =
                               e.resp[j].values[p]
                  /\ (\A j \in DOMAIN e.resp :
                         Len(e.resp[j].values) = Len(e.inputs[j])) =>
                        /\ Len(e.result) = n
                        /\ \A i \in 1..n :
                              e.result[i] = EmbedText(call.chunks[i])

\* A call over several batches has returned, the batches having completed
\* in another order than they were issued, each with a vector per chunk.
C1_Witness ==
    /\ call.e.pc = "returned"
    /\ Len(call.e.inputs) >= 2
    /\ call.e.order[1] > call.e.order[2]
    /\ Len(call.e.result) = Len(call.chunks)

Range(seq) == {seq[i] : i \in DOMAIN seq}

\* The chunk documents in the store that file k of index request r wrote.
DocsOf(r, k) == {c \in store : c.id \div 10 = r * 10 + k}

\* The chunk documents in the store that index request r wrote.
DocsOfRequest(r) == {c \in store : c.id \div 100 = r}

\* The per-file result of file k of index request r, as the response has it.
FileResult(r, k) ==
    [filename |-> ing[r].tasks[k].filename] @@ ing[r].tasks[k].result

\* The number of entries of a sequence that satisfy Test.
CountIn(seq, Test(_)) == Cardinality({i \in DOMAIN seq : Test(seq[i])})

\* C2: a file one of whose embedding calls raised gets no vector list at
\* all, index_batch is not entered for it (the task is done, never at its
\* commit), its result is an error, and the store holds no chunk of it.
C2_EmbeddingFailureAtomic ==
    \A r \in IngestIds : \A k \in DOMAIN ing[r].tasks :
        LET t == ing[r].tasks[k]
        IN t.batch_failed =>
              /\ t.pc = "done"
              /\ t.chunk_vectors = <<>>
              /\ t.result.status = "error"
              /\ t.result.document_ids = <<>>
              /\ DocsOf(r, k) = {}
              /\ ing[r].pc = "done" =>
                    /\ FileResult(r, k) \in Range(ing[r].failed)
                    /\ FileResult(r, k) \notin Range(ing[r].successful)

\* A request has answered in which one embedding call of a file raised
\* while another call of the same file returned its vectors.
C2_Witness ==
    \E r \in IngestIds : \E k \in DOMAIN ing[r].tasks :
        /\ ing[r].pc = "done"
        /\ ing[r].tasks[k].batch_failed
        /\ ing[r].tasks[k].batch_returned

\* C3: the files of an index request do not affect one another. At every
\* moment the store holds the chunks of exactly the files whose task has
\* returned success, all the chunks the task reports, whatever became of
\* the other files; and the response has exactly one result per file sent,
\* each a success or an error, its successes naming exactly the chunks the
\* request has in the store.
C3_FilesIndependent ==
    \A r \in IngestIds :
        /\ \A k \in DOMAIN ing[r].tasks :
              LET t == ing[r].tasks[k]
              IN /\ (t.result.status = "success") <=> (DocsOf(r, k) # {})
                 /\ {c.id : c \in DocsOf(r, k)} = Range(t.result.document_ids)
                 /\ \A c \in DocsOf(r, k) :
                       /\ InScope(c, ing[r].user, ing[r].session)
                       /\ c.filename = t.filename
        /\ ing[r].pc = "done" /\ ing[r].tasks # <<>> =>
              /\ \A k \in DOMAIN ing[r].tasks :
                    ing[r].tasks[k].result.status \in {"success", "error"}
              /\ Len(ing[r].successful) + Len(ing[r].failed)
                    = Len(ing[r].tasks)
              /\ \A x \in Range(ing[r].successful) \cup Range(ing[r].failed) :
                    CountIn(ing[r].successful \o ing[r].failed,
                            LAMBDA y : y = x)
                       = Cardinality({k \in DOMAIN ing[r].tasks :
                                         FileResult(r, k) = x})
              /\ \A x \in Range(ing[r].successful) : x.status = "success"
              /\ \A x \in Range(ing[r].failed) : x.status = "error"
              /\ {c.id : c \in DocsOfRequest(r)} =
                    UNION {Range(x.document_ids) :
                              x \in Range(ing[r].successful)}

\* A request has answered with one file indexed and another that had no
\* text, the store holding the chunks of the first.
C3_Witness ==
    \E r \in IngestIds : \E k1, k2 \in DOMAIN ing[r].tasks :
        /\ ing[r].pc = "done"
        /\ ing[r].tasks[k1].result.status = "success"
        /\ ing[r].tasks[k2].result.detail = "no_chunks"
        /\ DocsOf(r, k1) # {}

\* C4: an index request with files answers 500 exactly when no file
\* succeeded; with a success it answers 200 "completed", and the successful
\* and failed lists together hold every file's result.
C4_TotalFailureOnly ==
    \A r \in IngestIds :
        ing[r].pc = "done" /\ ing[r].tasks # <<>> =>
            LET succeeded == {k \in DOMAIN ing[r].tasks :
                                 ing[r].tasks[k].result.status = "success"}
            IN /\ ing[r].status \in {200, 500}
               /\ (ing[r].status = 500) <=> (succeeded = {})
               /\ succeeded # {} =>
                     /\ ing[r].status = 200
                     /\ ing[r].message = "Document processing completed."
                     /\ \A k \in DOMAIN ing[r].tasks :
                           FileResult(r, k) \in
                              Range(ing[r].successful) \cup Range(ing[r].failed)
                     /\ \A k \in succeeded :
                           FileResult(r, k) \in Range(ing[r].successful)

\* A request has answered 200 with a file indexed and a file failed.
C4_Witness ==
    \E r \in IngestIds :
        /\ ing[r].pc = "done"
        /\ ing[r].status = 200
        /\ ing[r].successful # <<>>
        /\ ing[r].failed # <<>>

\* C5: a deletion that matched no chunk answers NotFound (404), not the
\* generic 500; one that matched and answered 200 has deleted every chunk
\* it matched.
C5_DeleteNotFound ==
    \A d \in DeleteIds :
        del[d].pc = "done" =>
            /\ del[d].crud = 404 => del[d].status = 404
            /\ del[d].status = 200 =>
                  \A c \in store : c.id \notin del[d].docs

\* C6: a question whose answer pipeline returned no answer is answered 404,
\* while a collaborator that raised gives the 500.
C6_NoAnswerIsNotFound ==
    qst.pc = "done" =>
        /\ qst.response_empty => qst.status = 404
        /\ qst.collaborator_raised => qst.status = 500

\* C7: a question in a scope without chunks, the store having answered, is
\* answered 404 and the answer service is not called.
C7_EmptyScopeNotFound ==
    /\ qst.pc = "done"
    /\ qst.store_read
    /\ ~qst.collaborator_raised
    /\ qst.scope_chunks = 0
    => /\ qst.status = 404
       /\ ~qst.llm_called

\* C8: a question of nothing but whitespace is answered 400, with no read
\* of the store and no call of the embedding or the answer service.
C8_BlankQuestionRejected ==
    /\ qst.pc = "done"
    /\ \A i \in DOMAIN qst.question : qst.question[i] = " "
    => /\ qst.status = 400
       /\ ~qst.store_read
       /\ ~qst.embed_called
       /\ ~qst.llm_called

\* The listing shows `filename` under `session`.
Shows(result, session, filename) ==
    \E i \in DOMAIN result :
        /\ result[i].session_id = session
        /\ \E j \in DOMAIN result[i].files :
              result[i].files[j].filename = filename

\* A listing of the deletion's user that returned, having started after
\* the deletion had answered 200.
ListedAfterDelete(l, d) ==
    /\ lst[l].pc = "done"
    /\ lst[l].status = 200
    /\ d \in lst[l].after
    /\ lst[l].user = del[d].user

\* C9 as claimed: a listing started after a deletion answered 200 does not
\* show the deleted filename in that session, provided no ingestion of the
\* filename into the scope committed after the deletion returned.
C9_DeleteThenListAfterReturn ==
    \A l \in ListIds : \A d \in DeleteIds :
        ListedAfterDelete(l, d) /\ ~del[d].commit_after_return =>
            ~Shows(lst[l].result, del[d].session, del[d].filename)

\* C9 as amended: the same, provided no ingestion of the filename into the
\* scope committed after the deletion read the documents it was to delete.
C9_DeleteThenListAfterQuery ==
    \A l \in ListIds : \A d \in DeleteIds :
        ListedAfterDelete(l, d) /\ ~del[d].commit_after_query =>
            ~Shows(lst[l].result, del[d].session, del[d].filename)

\* A deletion has removed the several chunks of a file, no ingestion of the
\* file has committed since it read them, and a listing started after its
\* return shows the session with another file.
C9_Witness ==
    \E l \in ListIds : \E d \in DeleteIds :
        /\ ListedAfterDelete(l, d)
        /\ ~del[d].commit_after_query
        /\ Cardinality(del[d].docs) >= 2
        /\ \E f \in Filenames : Shows(lst[l].result, del[d].session, f)

\* The number of chunks of `filename` stored in (u, s).
ChunkCount(u, s, filename) ==
    Cardinality({c \in store : InScope(c, u, s) /\ c.filename = filename})

\* C10: a listing that no write interfered with names each session at most
\* once and in it each filename at most once, with chunk_count the number
\* of stored chunks of that session and filename, and it shows every
\* non-empty filename that has a chunk stored for the user.
C10_ListCounts ==
    \A l \in ListIds :
        lst[l].pc = "done" /\ lst[l].status = 200 /\ ~lst[l].dirty =>
            LET res == lst[l].result
                u == lst[l].user
            IN /\ \A i, j \in DOMAIN res :
                     res[i].session_id = res[j].session_id => i = j
               /\ \A i \in DOMAIN res :
                     /\ \A a, b \in DOMAIN res[i].files :
                           res[i].files[a].filename = res[i].files[b].filename
                              => a = b
                     /\ \A a \in DOMAIN res[i].files :
                           /\ res[i].files[a].filename # ""
                           /\ res[i].files[a].chunk_count >= 1
                           /\ res[i].files[a].chunk_count =
                                 ChunkCount(u, res[i].session_id,
                                            res[i].files[a].filename)
               /\ \A s \in Sessions : \A f \in Filenames \ {""} :
                     ChunkCount(u, s, f) > 0 => Shows(res, s, f)

\* A listing no write interfered with has returned two sessions, one with a
\* file of several chunks, while the user also has a chunk stored under the
\* empty filename.
C10_Witness ==
    \E l \in ListIds :
        /\ lst[l].pc = "done" /\ lst[l].status = 200 /\ ~lst[l].dirty
        /\ Len(lst[l].result) = 2
        /\ \E i \in DOMAIN lst[l].result :
              \E a \in DOMAIN lst[l].result[i].files :
                 lst[l].result[i].files[a].chunk_count >= 2
        /\ \E c \in store : c.user = lst[l].user /\ c.filename = ""

\* The chunk documents of file k of request r are a whole batch of `count`
\* records: one per id, each with the file's name and scope, together with
\* the user and session markers.
WholeBatch(r, k, count) ==
    /\ count >= 1
    /\ {c.id : c \in DocsOf(r, k)} = {DocId(r, k, i) : i \in 1..count}
    /\ Cardinality(DocsOf(r, k)) = count
    /\ \A c \in DocsOf(r, k) :
          /\ InScope(c, ing[r].user, ing[r].session)
          /\ c.filename = ing[r].tasks[k].filename
          /\ c.active
    /\ <<ing[r].user, ing[r].session>> \in sessions
    /\ ing[r].user \in users

C12_MalformedEmbeddingAborts ==
    \A r \in IngestIds : \A k \in DOMAIN ing[r].tasks :
        LET t == ing[r].tasks[k]
        IN /\ t.pc = "commit" =>
                 /\ Len(t.chunk_vectors) = Len(t.chunks)
                 /\ \A i \in DOMAIN t.chunks :
                       t.chunk_vectors[i] = EmbedText(t.chunks[i])
           /\ t.pc = "done" /\ t.result.status = "success" =>
                 \A c \in DocsOf(r, k) : c.embedding = EmbedText(c.text)

\* A file reported as success has a chunk stored with the vector of another
\* chunk's text.
C12_Witness ==
    \E r \in IngestIds : \E k \in DOMAIN ing[r].tasks :
        /\ ing[r].pc = "done"
        /\ ing[r].tasks[k].result.status = "success"
        /\ \E c \in DocsOf(r, k) : c.embedding # EmbedText(c.text)

\* The commit of a file of request r, in this step, wrote chunk record c.
WrittenBy(c, r) ==
    /\ InScope(c, ing[r].user, ing[r].session)
    /\ \E k \in DOMAIN ing[r].tasks :
          /\ ing[r].tasks[k].pc \in {"commit", "detached"}
          /\ ing'[r].tasks[k].pc \in {"done", "abandoned"}
          /\ c.filename = ing[r].tasks[k].filename

\* The commit of deletion d, in this step, removed chunk record c.
RemovedBy(c, d) ==
    /\ del[d].pc = "queried"
    /\ del'[d].pc = "done"
    /\ InScope(c, del[d].user, del[d].session)
    /\ c.filename = del[d].filename

\* C13: every step leaves every chunk record as it is, except that the
\* commit of an index request adds records to the request's own scope,
\* under the file's name, and the commit of a deletion removes records of
\* its own scope that carry its filename: no record of another scope, and
\* no record of another filename under a deletion, is added, removed or
\* changed, whatever else runs concurrently.
C13_FrameEffects ==
    [][/\ \A c \in store' \ store : \E r \in IngestIds : WrittenBy(c, r)
       /\ \A c \in store \ store' : \E d \in DeleteIds : RemovedBy(c, d)
      ]_vars

\* A deletion has returned 200 while the store still holds a chunk of
\* another filename in its scope and a chunk of its filename in another
\* scope, an index request having written into the deletion's scope.
C13_Witness ==
    \E d \in DeleteIds :
        /\ del[d].pc = "done"
        /\ del[d].status = 200
        /\ \E c \in store : /\ InScope(c, del[d].user, del[d].session)
                             /\ c.filename # del[d].filename
        /\ \E c \in store : /\ ~InScope(c, del[d].user, del[d].session)
                             /\ c.filename = del[d].filename
        /\ \E r \in IngestIds : \E c \in DocsOfRequest(r) :
              InScope(c, del[d].user, del[d].session)

====
